---------------------------- MODULE Spec2Model ----------------------------
(***************************************************************************)
(* ThermoBench-Consist: the four consistency checks (thermobench/checks.py) *)
(* and the score aggregator (thermobench/score.py).                         *)
(*                                                                          *)
(* Floating-point quantities are modelled as exact values: a rational       *)
(* [k |-> "fin", n, d] in lowest terms with d > 0, or one of the IEEE       *)
(* specials +inf, -inf, nan.  Derivatives, kappa and the C1/C2 tolerance    *)
(* are measured in units of 1e-10, so that the 1e-9 floor of the            *)
(* near-spinodal band is the integer 10.                                    *)
(***************************************************************************)
EXTENDS Integers, Sequences, FiniteSets

VARIABLES
    caps,               \* the adapter's Capabilities record
    pc,                 \* position of the run: "idle", "agg", "done" or "raised"
    last,               \* outcome of the most recent check call
    results_monotonic,  \* list of C1 results handed to the aggregator
    results_compress,   \* list of C2 results
    results_clapeyron,  \* list of C3 results
    results_c4,         \* list of C4 results
    summary,            \* the run summary, NoSummary until aggregated
    args,               \* the run's tolerances: tol_monotonic, tol_clap, tol_c4
    now,                \* the reading of the system clock (datetime.now)
    previous            \* the summary of an earlier aggregator call on the same inputs

vars == <<caps, pc, last, results_monotonic, results_compress,
          results_clapeyron, results_c4, summary, args, now, previous>>

(***************************************************************************)
(* Bounds of the model                                                      *)
(***************************************************************************)
\* total number of result records a caller hands to the aggregator
MaxTotalResults == 4
\* longest pressure sequence handed to C1 and C2
MaxGrid == 3
\* longest temperature list handed to C3 and C4
MaxTemps == 2
\* number of result records in collections that are aggregated twice
MaxTwiceResults == 2
\* latest reading of the clock
MaxClock == 2

(***************************************************************************)
(* Float values                                                             *)
(***************************************************************************)
Abs(x) == IF x < 0 THEN -x ELSE x

RECURSIVE GCD(_, _)
GCD(a, b) == IF b = 0 THEN a ELSE GCD(b, a % b)

\* the rational n/d (d # 0) in lowest terms with a positive denominator
Fin(n, d) ==
    LET s == IF d < 0 THEN -1 ELSE 1
        g == GCD(Abs(n), Abs(d))
    IN  [k |-> "fin", n |-> (s * n) \div g, d |-> (s * d) \div g]

PInf == [k |-> "pinf", n |-> 1, d |-> 0]
NInf == [k |-> "ninf", n |-> -1, d |-> 0]
NaN  == [k |-> "nan", n |-> 0, d |-> 0]
Zero == Fin(0, 1)
One  == Fin(1, 1)

IsFinite(v) == v.k = "fin"
IsNaN(v)    == v.k = "nan"

\* IEEE ordering: every comparison with nan is false
VLt(a, b) ==
    /\ ~IsNaN(a) /\ ~IsNaN(b)
    /\ CASE a.k = "ninf" -> b.k # "ninf"
         [] a.k = "pinf" -> FALSE
         [] OTHER -> CASE b.k = "pinf" -> TRUE
                       [] b.k = "ninf" -> FALSE
                       [] OTHER -> a.n * b.d < b.n * a.d
VGt(a, b) == VLt(b, a)
VGe(a, b) == ~IsNaN(a) /\ ~IsNaN(b) /\ ~VLt(a, b)
VLe(a, b) == VGe(b, a)

VNeg(a) == CASE a.k = "fin" -> Fin(-a.n, a.d)
             [] a.k = "pinf" -> NInf
             [] a.k = "ninf" -> PInf
             [] OTHER -> NaN

VAbs(a) == IF a.k = "fin" THEN Fin(Abs(a.n), a.d)
           ELSE IF IsNaN(a) THEN NaN ELSE PInf

\* sum and difference of finite values
VAdd(a, b) == Fin(a.n * b.d + b.n * a.d, a.d * b.d)
VSub(a, b) == Fin(a.n * b.d - b.n * a.d, a.d * b.d)
VMul(a, b) == Fin(a.n * b.n, a.d * b.d)

\* numpy float64 division: x/0 is +-inf or nan, never an exception
VDivNp(a, b) ==
    CASE IsNaN(a) \/ IsNaN(b) -> NaN
      [] a.k = "fin" /\ b.k = "fin" ->
            IF b.n # 0 THEN Fin(a.n * b.d, a.d * b.n)
            ELSE IF a.n > 0 THEN PInf ELSE IF a.n < 0 THEN NInf ELSE NaN
      [] a.k # "fin" /\ b.k = "fin" ->
            IF b.n >= 0 THEN a ELSE VNeg(a)
      [] a.k = "fin" /\ b.k # "fin" -> Zero
      [] OTHER -> NaN

\* Python's max(a, b): b only when b > a
VMax(a, b) == IF VGt(b, a) THEN b ELSE a

RECURSIVE SumSeq(_)
SumSeq(s) == IF s = <<>> THEN Zero ELSE VAdd(Head(s), SumSeq(Tail(s)))

\* np.mean of a non-empty list of finite values
Mean(s) == VDivNp(SumSeq(s), Fin(Len(s), 1))

\* subsequence of s whose elements satisfy Test, in order
Filter(s, Test(_)) == SelectSeq(s, Test)

AnyOf(s, Test(_)) == \E i \in 1..Len(s) : Test(s[i])
AllOf(s, Test(_)) == \A i \in 1..Len(s) : Test(s[i])

\* bool -> 0.0 / 1.0 as np.mean sees a list of booleans
BoolVal(b) == IF b THEN One ELSE Zero
Map01(s) == [i \in 1..Len(s) |-> BoolVal(s[i])]

(***************************************************************************)
(* The adapter and the inputs of the checks                                *)
(***************************************************************************)
\* Grid pressures, in a unit that makes every midpoint and every
\* finite-difference abscissa an integer.
GridPressures == {2, 4, 6}
\* densities an adapter returns (kg/m3 for kappa, 1e-10-units for slopes)
RhoVals == {-20, 0, 20}
\* what one adapter call does: return v, or raise
Returns(v) == [ok |-> TRUE, v |-> v]
Raises == [ok |-> FALSE, v |-> 0]
RhoOutcomes == {Raises} \cup {Returns(v) : v \in RhoVals}
\* C1/C2 tolerances, in units of 1e-10
Tols == {Fin(0, 1), Fin(10, 1)}

SeqsUpTo(S, n) == UNION {[1..m -> S] : m \in 0..n}

\* a call of an adapter operation that returned, and one that raised
Call(op, arg) == [op |-> op, arg |-> arg, raised |-> FALSE]
FailedCall(op, arg) == [op |-> op, arg |-> arg, raised |-> TRUE]

(***************************************************************************)
(* api.py: FiniteDiff.drho_dp_at_T                                         *)
(***************************************************************************)
\* rho1 is evaluated first; an exception of the adapter leaves at once
drho_dp_at_T(rho, p, dp) ==
    LET p1 == p - (dp \div 2)
        p2 == p + (dp \div 2)
    IN  IF ~rho[p1].ok
        THEN [raised |-> TRUE, value |-> NaN, calls |-> <<FailedCall("rho", p1)>>]
        ELSE IF ~rho[p2].ok
        THEN [raised |-> TRUE, value |-> NaN,
              calls |-> <<Call("rho", p1), FailedCall("rho", p2)>>]
        ELSE [raised |-> FALSE,
              value |-> VDivNp(Fin(rho[p2].v - rho[p1].v, 1), Fin(dp, 1)),
              calls |-> <<Call("rho", p1), Call("rho", p2)>>]

(***************************************************************************)
(* checks.py: C1 and C2                                                    *)
(***************************************************************************)
\* eps_guard = max(10.0 * tol, 1e-9), the 1e-9 in units of 1e-10
SpinodalFloor == 10
EpsGuard(tol) == VMax(VMul(Fin(10, 1), tol), Fin(SpinodalFloor, 1))

\* max(rho_mid, 1e-30): the floor is below every positive density of RhoVals;
\* it is held as 1/RhoFloorInv to stay inside 32-bit integers
RhoFloorInv == 1000000
RhoFloor == Fin(1, RhoFloorInv)

\* dr >= -tol in place of dr > -tol
AboveSlack_orEqual(tol, x) == VGe(x, VNeg(tol))

\* one element of dr > -tol
AboveSlack(tol, x) == VGt(x, VNeg(tol))

\* dr <= eps_guard in place of dr < eps_guard
InGuardBand_closed(tol, x) == VGe(x, Zero) /\ VLe(x, EpsGuard(tol))

\* one element of (dr >= 0) & (dr < eps_guard)
InGuardBand(tol, x) == VGe(x, Zero) /\ VLt(x, EpsGuard(tol))

\* np.all made false on an empty array
AllAbove_nonEmpty(dr, tol) ==
    Len(dr) > 0 /\ \A i \in 1..Len(dr) : AboveSlack(tol, dr[i])

\* np.mean(dr > -tol), np.all(dr > -tol), np.any((dr >= 0) & (dr < eps_guard))
FracAbove(dr, tol) ==
    Mean([i \in 1..Len(dr) |-> BoolVal(AboveSlack(tol, dr[i]))])
AllAbove(dr, tol) == \A i \in 1..Len(dr) : AboveSlack(tol, dr[i])
AnyInBand(dr, tol) == \E i \in 1..Len(dr) : InGuardBand(tol, dr[i])

\* np.min: nan if any element is nan
NpMin(dr) ==
    IF \E i \in 1..Len(dr) : IsNaN(dr[i]) THEN NaN
    ELSE CHOOSE x \in {dr[i] : i \in 1..Len(dr)} :
            \A j \in 1..Len(dr) : ~VLt(dr[j], x)

Returned(check, r, calls) ==
    [check |-> check, adapter |-> "any", outcome |-> "returned", cause |-> "none",
     requested |-> <<>>, observed |-> <<>>, result |-> r, calls |-> calls]
Raised(check, cause, calls) ==
    [check |-> check, adapter |-> "any", outcome |-> "raised", cause |-> cause,
     requested |-> <<>>, observed |-> <<>>,
     result |-> [supported |-> FALSE, passed |-> FALSE], calls |-> calls]

\* the loop over consecutive pressures, from pair k on: the derivatives so far
\* and the adapter calls made, or the exception that ended it
RECURSIVE MonotonicLoop(_, _, _, _, _)
MonotonicLoop(rho, p_vals, k, dr, calls) ==
    IF k >= Len(p_vals) THEN [raised |-> FALSE, dr |-> dr, calls |-> calls]
    ELSE LET p1 == p_vals[k]
             p2 == p_vals[k + 1]
             pmid == (p1 + p2) \div 2
             dp == p2 - p1
             d == drho_dp_at_T(rho, pmid, dp)
         IN  IF d.raised
             THEN [raised |-> TRUE, dr |-> dr, calls |-> calls \o d.calls]
             ELSE MonotonicLoop(rho, p_vals, k + 1, Append(dr, d.value),
                                calls \o d.calls)

check_monotonic_rho_isotherm(cp, rho, p_vals, tol) ==
    IF ~cp.supports_rho
    THEN Returned("C1",
            [name |-> "C1_monotonic", p |-> p_vals, drho_dp |-> <<>>,
             fraction_positive |-> Zero, min_derivative |-> NaN, tol |-> tol,
             supported |-> FALSE, passed |-> FALSE, near_spinodal |-> FALSE],
            <<>>)
    ELSE LET run == MonotonicLoop(rho, p_vals, 1, <<>>, <<>>)
             dr == run.dr
         IN  IF run.raised THEN Raised("C1", "adapter", run.calls)
             ELSE Returned("C1",
                    [name |-> "C1_monotonic", p |-> p_vals, drho_dp |-> dr,
                     fraction_positive |->
                        IF Len(dr) > 0 THEN FracAbove(dr, tol) ELSE Zero,
                     min_derivative |-> IF Len(dr) > 0 THEN NpMin(dr) ELSE NaN,
                     tol |-> tol, supported |-> TRUE,
                     passed |-> AllAbove(dr, tol),
                     near_spinodal |-> AnyInBand(dr, tol)],
                    run.calls)

\* the density used as it comes, without the floor
FlooredDensity_unclamped(rho_mid) == rho_mid

\* max(rho_mid, 1e-30)
FlooredDensity(rho_mid) == VMax(rho_mid, RhoFloor)

RECURSIVE CompressLoop(_, _, _, _, _)
CompressLoop(rho, p_vals, k, kappas, calls) ==
    IF k >= Len(p_vals)
    THEN [raised |-> FALSE, kappas |-> kappas, calls |-> calls]
    ELSE LET p1 == p_vals[k]
             p2 == p_vals[k + 1]
             pmid == (p1 + p2) \div 2
             dp == p2 - p1
             drdp == drho_dp_at_T(rho, pmid, dp)
             withMid == calls \o drdp.calls \o <<Call("rho", pmid)>>
         IN  IF drdp.raised
             THEN [raised |-> TRUE, kappas |-> kappas,
                   calls |-> calls \o drdp.calls]
             ELSE IF ~rho[pmid].ok
             THEN [raised |-> TRUE, kappas |-> kappas,
                   calls |-> calls \o drdp.calls \o <<FailedCall("rho", pmid)>>]
             ELSE LET rho_mid == Fin(rho[pmid].v, 1)
                      kappa == VDivNp(drdp.value, FlooredDensity(rho_mid))
                  IN  CompressLoop(rho, p_vals, k + 1,
                                   Append(kappas, kappa), withMid)

check_compressibility(cp, rho, p_vals, tol) ==
    IF ~cp.supports_rho
    THEN Returned("C2",
            [name |-> "C2_compressibility", p |-> p_vals, kappa_T |-> <<>>,
             tol |-> tol, supported |-> FALSE, passed |-> FALSE,
             near_spinodal |-> FALSE],
            <<>>)
    ELSE LET run == CompressLoop(rho, p_vals, 1, <<>>, <<>>)
             kappas == run.kappas
         IN  IF run.raised THEN Raised("C2", "adapter", run.calls)
             ELSE Returned("C2",
                    [name |-> "C2_compressibility", p |-> p_vals,
                     kappa_T |-> kappas, tol |-> tol, supported |-> TRUE,
                     passed |-> AllAbove(kappas, tol),
                     near_spinodal |-> AnyInBand(kappas, tol)],
                    run.calls)


(***************************************************************************)
(* checks.py: C3 and C4                                                    *)
(***************************************************************************)
\* requested temperatures; the fluid's saturation range is (T_triple, T_crit)
Temps == {1, 2, 3, 4}
T_triple == 1
T_crit == 4
\* temperatures requested of C4, which keeps every one of them
SoundTemps == {2, 3}

\* what a baseline query (CoolProp) does: return a value, or raise
SlopeOutcomes == {Raises, Returns(0), Returns(1)}
SoundOutcomes == {Raises, Returns(0), Returns(2)}

\* what adapter.phase_split_at_T does: raise, or return (p_sat, liq, vap);
\* nan marks a returned enthalpy that is not a number
SplitRaises == [ok |-> FALSE, rho_l |-> 0, rho_v |-> 0, h_l |-> 0, h_v |-> 0,
                nan |-> FALSE]
SplitReturns(rl, rv, hl, hv, nan) ==
    [ok |-> TRUE, rho_l |-> rl, rho_v |-> rv, h_l |-> hl, h_v |-> hv, nan |-> nan]
SplitOutcomes ==
    {SplitRaises, SplitReturns(2, 1, 0, 1, TRUE)}
    \cup {SplitReturns(2, rv, 0, 1, FALSE) : rv \in {1, 2}}
    \cup {SplitReturns(2, 1, 0, 2, FALSE)}

\* what adapter.speed_of_sound does: raise, or return a speed
SpeedOutcomes == {Raises, Returns(1), Returns(2)}

TolRels == {Fin(1, 10), Fin(1, 3)}
TolRelsC4 == {Fin(1, 5), Fin(3, 4)}

\* the finite elements of a list, in order
FiniteOnes(s) == SelectSeq(s, IsFinite)

\* s sorted ascending (finite values)
RECURSIVE SortSeq(_)
SortSeq(s) ==
    IF s = <<>> THEN <<>>
    ELSE LET i == CHOOSE j \in 1..Len(s) : \A m \in 1..Len(s) : ~VLt(s[m], s[j])
             rest == [m \in 1..(Len(s) - 1) |-> IF m < i THEN s[m] ELSE s[m + 1]]
         IN  <<s[i]>> \o SortSeq(rest)

\* np.median: nan for an empty list, else the middle element or the mean of
\* the two middle elements
Median(s) ==
    IF s = <<>> THEN NaN
    ELSE LET o == SortSeq(s)
             n == Len(s)
         IN  IF n % 2 = 1 THEN o[(n + 1) \div 2]
             ELSE VDivNp(VAdd(o[n \div 2], o[n \div 2 + 1]), Fin(2, 1))

\* rhs = dh / (T * dv) in Python floats: a zero divisor raises
\* ZeroDivisionError, a nan enthalpy gives nan
ClapeyronRhs(T, o) ==
    IF o.rho_v = 0 \/ o.rho_l = 0 THEN [raised |-> TRUE, value |-> NaN]
    ELSE LET dv == VSub(Fin(1, o.rho_v), Fin(1, o.rho_l))
             dh == o.h_v - o.h_l
             den == VMul(Fin(T, 1), dv)
         IN  IF den.n = 0 THEN [raised |-> TRUE, value |-> NaN]
             ELSE IF o.nan THEN [raised |-> FALSE, value |-> NaN]
             ELSE [raised |-> FALSE, value |-> VDivNp(Fin(dh, 1), den)]

\* rel = abs(lhs - rhs) / abs(lhs) if isfinite(rhs) and abs(lhs) > 0 else inf
ClapeyronRel(lhs, rhs) ==
    IF IsFinite(rhs) /\ VGt(VAbs(lhs), Zero)
    THEN VDivNp(VAbs(VSub(lhs, rhs)), VAbs(lhs))
    ELSE PInf

\* supports_h left out of the capability test
ClapeyronSupports_withoutH(cp) == cp.supports_phase_split /\ cp.supports_rho

\* supports = bool(caps.supports_phase_split and caps.supports_h and caps.supports_rho)
ClapeyronSupports(cp) ==
    cp.supports_phase_split /\ cp.supports_h /\ cp.supports_rho

\* the verdict taken from the median alone, whatever supports is
ClapeyronPassed_ignoringSupports(supports, rel_err, tol_rel) ==
    VLt(Median(FiniteOnes(rel_err)), tol_rel)

\* med_err <= tol_rel in place of med_err < tol_rel
ClapeyronPassed_orEqual(supports, rel_err, tol_rel) ==
    LET med_err == IF supports THEN Median(FiniteOnes(rel_err)) ELSE PInf
    IN  IF supports THEN VLe(med_err, tol_rel) ELSE FALSE

\* med_err = np.median(finite rel_err) if supports else inf;
\* passed = bool(med_err < tol_rel) if supports else False
ClapeyronPassed(supports, rel_err, tol_rel) ==
    LET med_err == IF supports THEN Median(FiniteOnes(rel_err)) ELSE PInf
    IN  IF supports THEN VLt(med_err, tol_rel) ELSE FALSE

\* T_list = [float(T) for T in T_list if T_triple < float(T) < T_crit];
\* a failed range lookup is caught and leaves the range (-inf, inf)
InSaturationRange(T) == T_triple < T /\ T < T_crit
KeptTemps(T_list, lookupOk) ==
    IF lookupOk THEN SelectSeq(T_list, InSaturationRange) ELSE T_list

\* the loop over temperatures from index i on.  st carries supports, the three
\* lists and the adapter calls; slope[i] and split[i] are what the baseline
\* and the adapter do at the i-th temperature.
\* the outcome of C3 called with the temperature list T_in
Requested(T_in, outcome) == [outcome EXCEPT !.requested = T_in]

\* the except clause of the range lookup: the exception of the baseline is
\* caught and the check goes on; the outcome keeps a note of it
LookupCaught(lookupOk, outcome) ==
    IF lookupOk \/ outcome.outcome = "raised" THEN outcome
    ELSE [outcome EXCEPT !.cause = "lookup"]

\* the adapter asked again at every temperature after its first call
StillTried_afterFailure(st) == st.supports \/ st.calls # <<>>

\* if supports: the adapter is asked only while the check is still supported
StillTried(st) == st.supports

RECURSIVE ClapeyronLoop(_, _, _, _, _)
ClapeyronLoop(T_list, slope, split, i, st) ==
    IF i > Len(T_list) THEN st
    ELSE IF ~slope[i].ok THEN [st EXCEPT !.raised = TRUE]
    ELSE LET T == T_list[i]
             lhs == Fin(slope[i].v, 1)
             tried == StillTried(st)
             r == ClapeyronRhs(T, split[i])
             failed == tried /\ (~split[i].ok \/ r.raised)
             rhs == IF tried /\ ~failed THEN r.value ELSE NaN
         IN  ClapeyronLoop(T_list, slope, split, i + 1,
                [raised |-> FALSE,
                 supports |-> st.supports /\ ~failed,
                 lhs_vals |-> Append(st.lhs_vals, lhs),
                 rhs_vals |-> Append(st.rhs_vals, rhs),
                 rel_err |-> Append(st.rel_err, ClapeyronRel(lhs, rhs)),
                 calls |-> IF tried
                           THEN Append(st.calls,
                                       IF split[i].ok
                                       THEN Call("phase_split_at_T", T)
                                       ELSE FailedCall("phase_split_at_T", T))
                           ELSE st.calls])

check_clapeyron(cp, lookupOk, slope, split, T_in, tol_rel) ==
    LET supports0 == ClapeyronSupports(cp)
        T_list == KeptTemps(T_in, lookupOk)
    IN  Requested(T_in, LookupCaught(lookupOk,
        IF T_list = <<>>
        THEN Returned("C3",
                [name |-> "C3_clapeyron", T_list |-> <<>>, rel_errors |-> <<>>,
                 tol_rel |-> tol_rel, supported |-> FALSE, passed |-> FALSE,
                 rhs_values |-> <<>>, lhs_values |-> <<>>],
                <<>>)
        ELSE LET run == ClapeyronLoop(T_list, slope, split, 1,
                            [raised |-> FALSE, supports |-> supports0,
                             lhs_vals |-> <<>>, rhs_vals |-> <<>>,
                             rel_err |-> <<>>, calls |-> <<>>])
             IN  IF run.raised THEN Raised("C3", "baseline", run.calls)
                 ELSE Returned("C3",
                        [name |-> "C3_clapeyron", T_list |-> T_list,
                         rel_errors |-> run.rel_err, tol_rel |-> tol_rel,
                         supported |-> run.supports,
                         passed |-> ClapeyronPassed(run.supports, run.rel_err,
                                                    tol_rel),
                         rhs_values |-> run.rhs_vals,
                         lhs_values |-> run.lhs_vals],
                        run.calls)))

\* FiniteDiff.a_coolprop: the baseline speed of sound at (T, p_ref)
a_coolprop(sound, i) == sound[i]

\* max(a_ref * a_ref, 1e-30), the floor held as 1/A2FloorInv
A2FloorInv == 1000000
A2Floor == Fin(1, A2FloorInv)

\* the gate forced open: the adapter is queried whatever it declares
SupportsSound_always(cp) == TRUE

\* bool(getattr(caps, "supports_speed_of_sound", False))
SupportsSound(cp) == cp.supports_speed_of_sound

RECURSIVE SpeedLoop(_, _, _, _, _)
SpeedLoop(T_list, sound, speed, i, st) ==
    IF i > Len(T_list) THEN st
    ELSE IF ~a_coolprop(sound, i).ok THEN [st EXCEPT !.raised = TRUE]
    ELSE LET T == T_list[i]
             a_ref == a_coolprop(sound, i).v
             ref2 == Fin(a_ref * a_ref, 1)
             tried == st.supports
             failed == tried /\ ~speed[i].ok
             evaluated == tried /\ ~failed
             sur2 == IF evaluated THEN Fin(speed[i].v * speed[i].v, 1) ELSE NaN
             rel == IF evaluated
                    THEN VDivNp(VAbs(VSub(sur2, ref2)), VMax(ref2, A2Floor))
                    ELSE PInf
         IN  SpeedLoop(T_list, sound, speed, i + 1,
                [raised |-> FALSE,
                 supports |-> st.supports /\ ~failed,
                 a2_ref |-> Append(st.a2_ref, ref2),
                 a2_sur |-> Append(st.a2_sur, sur2),
                 rel |-> Append(st.rel, rel),
                 calls |-> IF tried
                           THEN Append(st.calls,
                                       IF speed[i].ok
                                       THEN Call("speed_of_sound", T)
                                       ELSE FailedCall("speed_of_sound", T))
                           ELSE st.calls])

check_speed_of_sound(cp, sound, speed, T_list, tol_rel) ==
    LET run == SpeedLoop(T_list, sound, speed, 1,
                   [raised |-> FALSE, supports |-> SupportsSound(cp),
                    a2_ref |-> <<>>, a2_sur |-> <<>>, rel |-> <<>>,
                    calls |-> <<>>])
        med_err == IF run.supports THEN Median(FiniteOnes(run.rel)) ELSE PInf
    IN  IF run.raised THEN Raised("C4", "baseline", run.calls)
        ELSE Returned("C4",
                [name |-> "C4_speed_of_sound", T_list |-> T_list,
                 rel_errors |-> run.rel, tol_rel |-> tol_rel,
                 supported |-> run.supports,
                 passed |-> IF run.supports THEN VLt(med_err, tol_rel) ELSE FALSE,
                 a2_ref |-> run.a2_ref, a2_sur |-> run.a2_sur],
                run.calls)


(***************************************************************************)
(* score.py: per-check summaries and the run summary                       *)
(***************************************************************************)
\* The fields of a check result that the aggregator's decisions read.
MonoRecords == [supported : BOOLEAN, passed : BOOLEAN, near_spinodal : BOOLEAN]
PlainRecords == [supported : BOOLEAN, passed : BOOLEAN]

IsSupported(r) == r.supported
IsNearSpinodal(r) == r.near_spinodal
IsTrue(b) == b

\* the filter on r.supported left out
Passes_ofAllResults(results) == [i \in 1..Len(results) |-> results[i].passed]

\* passes = [r.passed for r in results if r.supported]
Passes(results) ==
    LET sup == Filter(results, IsSupported)
    IN  [i \in 1..Len(sup) |-> sup[i].passed]

\* ratio = float(np.mean(passes)) if passes else 0.0
PassRatio(results) ==
    IF Passes(results) # <<>> THEN Mean(Map01(Passes(results))) ELSE Zero

\* all(passes) if passes else False
AllPassed(results) ==
    IF Passes(results) # <<>> THEN AllOf(Passes(results), IsTrue) ELSE FALSE

\* the warning flag tested before passed
_severity_from_flags_flagFirst(passed, warn_flag) ==
    IF warn_flag THEN "warn"
    ELSE IF passed THEN "info"
    ELSE "fail"

_severity_from_flags(passed, warn_flag) ==
    IF passed /\ ~warn_flag THEN "info"
    ELSE IF passed /\ warn_flag THEN "warn"
    ELSE "fail"

CheckSummary(name, supported, passed, ratio, sev) ==
    [name |-> name, supported |-> supported, passed |-> passed,
     pass_ratio |-> ratio, severity |-> sev]

_summarize_monotonic(results) ==
    LET supported == AnyOf(results, IsSupported)
        warn_flag == AnyOf(results, IsNearSpinodal)
    IN  CheckSummary("C1_monotonic", supported, AllPassed(results),
                     PassRatio(results),
                     _severity_from_flags(AllPassed(results), warn_flag))

_summarize_compress(results) ==
    LET supported == AnyOf(results, IsSupported)
        warn_flag == AnyOf(results, IsNearSpinodal)
    IN  CheckSummary("C2_compressibility", supported, AllPassed(results),
                     PassRatio(results),
                     _severity_from_flags(AllPassed(results), warn_flag))

_summarize_clapeyron(results) ==
    LET supported == AnyOf(results, IsSupported)
        sev == IF AllPassed(results) THEN "info" ELSE "fail"
    IN  CheckSummary("C3_clapeyron", supported, AllPassed(results),
                     PassRatio(results), sev)

\* C4 given the binary severity of C3
_summarize_c4_binary(results) ==
    LET supported == AnyOf(results, IsSupported)
        sev == IF AllPassed(results) THEN "info" ELSE "fail"
    IN  CheckSummary("C4_speed_of_sound", supported, AllPassed(results),
                     PassRatio(results), sev)

_summarize_c4(results) ==
    LET supported == AnyOf(results, IsSupported)
        sev == IF AllPassed(results) THEN "info"
               ELSE IF supported THEN "warn" ELSE "info"
    IN  CheckSummary("C4_speed_of_sound", supported, AllPassed(results),
                     PassRatio(results), sev)

\* ratios = [c.pass_ratio for c in [c1, c2, c3] if c.supported]
SupportedRatios(cs) ==
    LET sup == Filter(cs, IsSupported)
    IN  [i \in 1..Len(sup) |-> sup[i].pass_ratio]

\* the mean taken over every check, an unsupported one counting as 0
CompositeOf_countingUnsupported(cs) ==
    VMul(Fin(100, 1), Mean([i \in 1..Len(cs) |-> cs[i].pass_ratio]))

\* np.mean of the empty list (nan) when no check is supported
CompositeOf_withoutEmptyGuard(cs) ==
    IF SupportedRatios(cs) # <<>>
    THEN VMul(Fin(100, 1), Mean(SupportedRatios(cs)))
    ELSE NaN

\* composite = float(100.0 * np.mean(ratios)) if ratios else 0.0
CompositeOf(cs) ==
    IF SupportedRatios(cs) # <<>>
    THEN VMul(Fin(100, 1), Mean(SupportedRatios(cs)))
    ELSE Zero

\* the mean taken over every check given, an unsupported one counting as 0
BadgeOf_countingUnsupported(cs) ==
    IF cs # <<>> THEN Mean([i \in 1..Len(cs) |-> cs[i].pass_ratio]) ELSE Zero

\* float(np.mean([c.pass_ratio for c in sel])) if sel else 0.0
BadgeOf(cs) ==
    IF SupportedRatios(cs) # <<>> THEN Mean(SupportedRatios(cs)) ELSE Zero

\* datetime_utc is read from the clock inside the function
aggregate_checks_to_summary(rm, rc, rcl, tol_monotonic, tol_clap, r4) ==
    LET c1 == _summarize_monotonic(rm)
        c2 == _summarize_compress(rc)
        c3 == _summarize_clapeyron(rcl)
        c4 == _summarize_c4(r4)
    IN  [datetime_utc |-> now,
         tolerances |-> [monotonic |-> tol_monotonic, clapeyron_rel |-> tol_clap],
         checks |-> [C1 |-> c1, C2 |-> c2, C3 |-> c3, C4 |-> c4],
         badges |-> [Core |-> BadgeOf(<<c1, c2, c3>>),
                     Plus |-> BadgeOf(<<c4>>)],
         composite_score |-> CompositeOf(<<c1, c2, c3>>)]

NoSummary == [checks |-> <<>>, badges |-> <<>>, composite_score |-> NaN]
NoCall == [check |-> "none", adapter |-> "any", outcome |-> "none", cause |-> "none",
           requested |-> <<>>, observed |-> <<>>,
           result |-> [supported |-> FALSE, passed |-> FALSE], calls |-> <<>>]
AllCaps == [supports_rho : BOOLEAN, supports_h : BOOLEAN,
            supports_phase_split : BOOLEAN, supports_speed_of_sound : BOOLEAN]

\* the tolerances of a run (--tol_monotonic, --tol_clap, --tol_c4): the
\* strict values together, or the loose values together
RunArgs ==
    {a \in [tol_monotonic : Tols, tol_clap : TolRels, tol_c4 : TolRelsC4] :
        /\ (a.tol_monotonic = Fin(0, 1)) = (a.tol_clap = Fin(1, 10))
        /\ (a.tol_clap = Fin(1, 10)) = (a.tol_c4 = Fin(1, 5))}
\* the defaults of the command line: 1e-6, 0.1, 0.2
DefaultArgs ==
    [tol_monotonic |-> Fin(10000, 1), tol_clap |-> Fin(1, 10), tol_c4 |-> Fin(1, 5)]

(***************************************************************************)
(* The aggregator on arbitrary result collections                          *)
(***************************************************************************)
TotalResults == Len(results_monotonic) + Len(results_compress)
                + Len(results_clapeyron) + Len(results_c4)

AddMonotonic ==
    /\ pc = "agg" /\ TotalResults < MaxTotalResults
    /\ \E r \in MonoRecords : results_monotonic' = Append(results_monotonic, r)
    /\ UNCHANGED <<args, now, previous,
                   caps, pc, last, results_compress, results_clapeyron,
                   results_c4, summary>>

AddCompress ==
    /\ pc = "agg" /\ TotalResults < MaxTotalResults
    /\ \E r \in MonoRecords : results_compress' = Append(results_compress, r)
    /\ UNCHANGED <<args, now, previous,
                   caps, pc, last, results_monotonic, results_clapeyron,
                   results_c4, summary>>

AddClapeyron ==
    /\ pc = "agg" /\ TotalResults < MaxTotalResults
    /\ \E r \in PlainRecords : results_clapeyron' = Append(results_clapeyron, r)
    /\ UNCHANGED <<args, now, previous,
                   caps, pc, last, results_monotonic, results_compress,
                   results_c4, summary>>

AddC4 ==
    /\ pc = "agg" /\ TotalResults < MaxTotalResults
    /\ \E r \in PlainRecords : results_c4' = Append(results_c4, r)
    /\ UNCHANGED <<args, now, previous,
                   caps, pc, last, results_monotonic, results_compress,
                   results_clapeyron, summary>>

Aggregate ==
    /\ pc = "agg"
    /\ summary' = aggregate_checks_to_summary(results_monotonic, results_compress,
                                              results_clapeyron,
                                              args.tol_monotonic, args.tol_clap,
                                              results_c4)
    /\ pc' = "done"
    /\ UNCHANGED <<args, now, previous,
                   caps, last, results_monotonic, results_compress,
                   results_clapeyron, results_c4>>

InitAgg ==
    /\ caps = [supports_rho |-> TRUE, supports_h |-> TRUE,
               supports_phase_split |-> TRUE, supports_speed_of_sound |-> TRUE]
    /\ args = DefaultArgs
    /\ now = 1
    /\ previous = NoSummary
    /\ pc = "agg"
    /\ last = NoCall
    /\ results_monotonic = <<>>
    /\ results_compress = <<>>
    /\ results_clapeyron = <<>>
    /\ results_c4 = <<>>
    /\ summary = NoSummary

NextAgg == AddMonotonic \/ AddCompress \/ AddClapeyron \/ AddC4 \/ Aggregate

SpecAgg == InitAgg /\ [][NextAgg]_vars

(***************************************************************************)
(* A run: one check is called on the adapter, its result is put into the   *)
(* list of that check, and the lists are aggregated.                       *)
(***************************************************************************)
\* What the adapter's operations do when called at the points of a set D: an
\* operation the adapter does not have raises, one it has may do anything.
RhoBehaviours(D) ==
    IF caps.supports_rho THEN [D -> RhoOutcomes] ELSE {[x \in D |-> Raises]}
\* phase_split_at_T hands out rho and h of both phases: it needs all three
SplitChoices ==
    IF caps.supports_phase_split /\ caps.supports_h /\ caps.supports_rho
    THEN SplitOutcomes ELSE {SplitRaises}
SpeedChoices == IF caps.supports_speed_of_sound THEN SpeedOutcomes ELSE {Raises}

\* What the baseline and the adapter do at each of n temperatures.  The
\* baseline is asked first; when it raises the adapter is not reached.
ClapeyronBehaviours(n) ==
    [1..n -> {[base |-> Raises, adapter |-> SplitRaises]}
             \cup {[base |-> b, adapter |-> o] :
                        b \in SlopeOutcomes \ {Raises}, o \in SplitChoices}]
SpeedBehaviours(n) ==
    [1..n -> {[base |-> Raises, adapter |-> Raises]}
             \cup {[base |-> b, adapter |-> o] :
                        b \in SoundOutcomes \ {Raises}, o \in SpeedChoices}]
BaseOf(beh) == [i \in DOMAIN beh |-> beh[i].base]
AdapterOf(beh) == [i \in DOMAIN beh |-> beh[i].adapter]

\* the pressures at which C1 asks for a density (the grid points: the
\* centred difference at pmid with step dp reads p1 and p2), and those at
\* which C2 does (the midpoints as well)
GridPoints(p_vals) ==
    UNION {{p_vals[k], p_vals[k + 1]} : k \in 1..(Len(p_vals) - 1)}
QueryPoints(p_vals) ==
    UNION {{p_vals[k], p_vals[k + 1], (p_vals[k] + p_vals[k + 1]) \div 2} :
           k \in 1..(Len(p_vals) - 1)}

MonoFields(r) == [supported |-> r.supported, passed |-> r.passed,
                  near_spinodal |-> r.near_spinodal]
PlainFields(r) == [supported |-> r.supported, passed |-> r.passed]

\* results_x = [r] when the check x returned r
Collected(results, check, outcome, fields) ==
    IF outcome.check = check /\ outcome.outcome = "returned"
    THEN Append(results, fields) ELSE results

\* The call ends: either the check returned and the caller puts its result
\* into the list of that check, or an exception left the check and the run.
Finish(outcome) ==
    /\ last' = outcome
    /\ pc' = IF outcome.outcome = "returned" THEN "agg" ELSE "raised"
    /\ results_monotonic' = Collected(results_monotonic, "C1", outcome,
                                      MonoFields(outcome.result))
    /\ results_compress' = Collected(results_compress, "C2", outcome,
                                     MonoFields(outcome.result))
    /\ results_clapeyron' = Collected(results_clapeyron, "C3", outcome,
                                      PlainFields(outcome.result))
    /\ results_c4' = Collected(results_c4, "C4", outcome,
                               PlainFields(outcome.result))
    /\ UNCHANGED <<args, now, previous, caps, summary>>

RunC1 ==
    /\ pc = "idle"
    /\ \E p_vals \in SeqsUpTo(GridPressures, MaxGrid) :
         \E rho \in RhoBehaviours(GridPoints(p_vals)) :
            Finish(check_monotonic_rho_isotherm(caps, rho, p_vals,
                                                args.tol_monotonic))

\* what the adapter hands C2 at each midpoint of a grid: the derivative that
\* drho_dp_at_T forms from its densities, and its density at the midpoint
MidpointReadings(rho, p_vals) ==
    [k \in 1..(Len(p_vals) - 1) |->
        LET p1 == p_vals[k]
            p2 == p_vals[k + 1]
            pmid == (p1 + p2) \div 2
        IN  [derivative |-> drho_dp_at_T(rho, pmid, p2 - p1).value,
             rho_mid |-> rho[pmid].v]]

\* a supported result is kept together with the readings it was computed from
Observed(readings, outcome) ==
    IF outcome.outcome = "returned" /\ outcome.result.supported
    THEN [outcome EXCEPT !.observed = readings] ELSE outcome

RunC2 ==
    /\ pc = "idle"
    /\ \E p_vals \in SeqsUpTo(GridPressures, MaxGrid) :
         \E rho \in RhoBehaviours(QueryPoints(p_vals)) :
            Finish(Observed(MidpointReadings(rho, p_vals),
                            check_compressibility(caps, rho, p_vals,
                                                  args.tol_monotonic)))

RunC3 ==
    /\ pc = "idle"
    /\ \E T_in \in SeqsUpTo(Temps, MaxTemps), lookupOk \in BOOLEAN :
         \E beh \in ClapeyronBehaviours(Len(KeptTemps(T_in, lookupOk))) :
            Finish(check_clapeyron(caps, lookupOk, BaseOf(beh), AdapterOf(beh),
                                   T_in, args.tol_clap))

RunC4 ==
    /\ pc = "idle"
    /\ \E T_list \in SeqsUpTo(SoundTemps, MaxTemps) :
         \E beh \in SpeedBehaviours(Len(T_list)) :
            Finish(check_speed_of_sound(caps, BaseOf(beh), AdapterOf(beh),
                                        T_list, args.tol_c4))

(***************************************************************************)
(* The bundled adapters                                                    *)
(***************************************************************************)
BundledAdapters == {"CoolPropAdapter", "ToyInconsistentAdapter"}

\* the fields of the dataclass Capabilities and their defaults
CapabilitiesFields == {"supports_rho", "supports_h", "supports_phase_split"}
CapabilitiesDefaults ==
    [supports_rho |-> TRUE, supports_h |-> FALSE, supports_phase_split |-> FALSE]

\* Capabilities(**kwargs): the generated __init__ raises TypeError on a
\* keyword that is no field; a field not given takes its default
Capabilities(kwargs, fields) ==
    IF DOMAIN kwargs \subseteq fields
    THEN [ok |-> TRUE,
          v |-> [f \in fields |-> IF f \in DOMAIN kwargs THEN kwargs[f]
                                  ELSE CapabilitiesDefaults[f]]]
    ELSE [ok |-> FALSE, v |-> kwargs]

\* adapter.capabilities() of a bundled adapter: both pass the same keywords
capabilities(a) ==
    Capabilities([supports_rho |-> TRUE, supports_h |-> TRUE,
                  supports_phase_split |-> TRUE,
                  supports_speed_of_sound |-> TRUE], CapabilitiesFields)

\* the outcome o, of a call made on the bundled adapter a
OnAdapter(a, o) == [o EXCEPT !.adapter = a]

\* cli_main, inspect: the adapter is loaded and asked for its capabilities
Inspect ==
    /\ pc = "idle"
    /\ \E a \in BundledAdapters :
         LET c == capabilities(a)
         IN  /\ last' = OnAdapter(a, IF c.ok THEN Returned("capabilities", c.v, <<>>)
                                     ELSE Raised("capabilities", "TypeError", <<>>))
             /\ pc' = IF c.ok THEN "inspected" ELSE "raised"
    /\ UNCHANGED <<args, now, previous, caps, results_monotonic,
                   results_compress, results_clapeyron, results_c4, summary>>

\* ToyInconsistentAdapter.rho on the pressures of the grid and their
\* midpoints: the density falls across the band of the dip and rises after it
ToyDipBand == {2, 3, 4}
ToyRho ==
    [p \in 2..6 |-> Returns(CASE p = 2 -> 20 [] p = 3 -> 10 [] p = 4 -> 0
                               [] p = 5 -> 10 [] p = 6 -> 20)]

\* C1 or C2 called on the toy adapter: the check asks the adapter for its
\* capabilities first
RunToy ==
    /\ pc = "idle"
    /\ \E check \in {"C1", "C2"}, p_vals \in SeqsUpTo(GridPressures, MaxGrid) :
         LET c == capabilities("ToyInconsistentAdapter")
         IN  Finish(OnAdapter("ToyInconsistentAdapter",
                IF ~c.ok THEN Raised(check, "TypeError", <<>>)
                ELSE IF check = "C1"
                THEN check_monotonic_rho_isotherm(c.v, ToyRho, p_vals,
                                                  args.tol_monotonic)
                ELSE check_compressibility(c.v, ToyRho, p_vals,
                                           args.tol_monotonic)))

Init ==
    /\ caps \in AllCaps
    /\ args \in RunArgs
    /\ now = 1
    /\ previous = NoSummary
    /\ pc = "idle"
    /\ last = NoCall
    /\ results_monotonic = <<>>
    /\ results_compress = <<>>
    /\ results_clapeyron = <<>>
    /\ results_c4 = <<>>
    /\ summary = NoSummary

Next == RunC1 \/ RunC2 \/ RunC3 \/ RunC4 \/ Inspect \/ RunToy \/ Aggregate

Spec == Init /\ [][Next]_vars

(***************************************************************************)
(* The aggregator called twice on the same collections                     *)
(***************************************************************************)
\* the caller puts one more result record into one of the four collections
CollectAny ==
    /\ pc = "agg" /\ TotalResults < MaxTwiceResults
    /\ \/ /\ \E r \in MonoRecords :
                results_monotonic' = Append(results_monotonic, r)
          /\ UNCHANGED <<results_compress, results_clapeyron, results_c4>>
       \/ /\ \E r \in MonoRecords :
                results_compress' = Append(results_compress, r)
          /\ UNCHANGED <<results_monotonic, results_clapeyron, results_c4>>
       \/ /\ \E r \in PlainRecords :
                results_clapeyron' = Append(results_clapeyron, r)
          /\ UNCHANGED <<results_monotonic, results_compress, results_c4>>
       \/ /\ \E r \in PlainRecords : results_c4' = Append(results_c4, r)
          /\ UNCHANGED <<results_monotonic, results_compress, results_clapeyron>>
    /\ UNCHANGED <<args, now, previous, caps, pc, last, summary>>

\* time passes between the two calls
Tick ==
    /\ pc = "done" /\ now < MaxClock
    /\ now' = now + 1
    /\ UNCHANGED <<args, previous, caps, pc, last, results_monotonic,
                   results_compress, results_clapeyron, results_c4, summary>>

\* the second call, with the arguments of the first
AggregateAgain ==
    /\ pc = "done"
    /\ previous' = summary
    /\ summary' = aggregate_checks_to_summary(results_monotonic, results_compress,
                                              results_clapeyron,
                                              args.tol_monotonic, args.tol_clap,
                                              results_c4)
    /\ pc' = "again"
    /\ UNCHANGED <<args, now, caps, last, results_monotonic, results_compress,
                   results_clapeyron, results_c4>>

NextTwice == CollectAny \/ Aggregate \/ Tick \/ AggregateAgain

SpecTwice == InitAgg /\ [][NextTwice]_vars


(***************************************************************************)
(* Claims about the aggregator                                             *)
(***************************************************************************)
Count(s, Test(_)) == Len(SelectSeq(s, Test))
PassedSupported(r) == r.supported /\ r.passed

\* fraction of the supported results of a collection that passed
FractionPassed(results) ==
    IF Count(results, IsSupported) = 0 THEN Zero
    ELSE Fin(Count(results, PassedSupported), Count(results, IsSupported))

SomeSupported(results) == Count(results, IsSupported) > 0

\* 100 x mean of FractionPassed over the collections with a supported result
ScoreOver(colls) ==
    LET idx == {i \in 1..Len(colls) : SomeSupported(colls[i])}
        RECURSIVE Total(_)
        Total(S) == IF S = {} THEN Zero
                    ELSE LET i == CHOOSE j \in S : TRUE
                         IN  VAdd(FractionPassed(colls[i]), Total(S \ {i}))
    IN  IF idx = {} THEN Zero
        ELSE VMul(Fin(100, 1), VDivNp(Total(idx), Fin(Cardinality(idx), 1)))

CoreCollections == <<results_monotonic, results_compress, results_clapeyron>>
AllCollections == <<results_monotonic, results_compress, results_clapeyron,
                    results_c4>>

C2_ZeroIffNoneSupported ==
    pc = "done" =>
        /\ VGe(summary.composite_score, Zero)
        /\ VLe(summary.composite_score, Fin(100, 1))
        /\ (summary.composite_score = Zero <=>
                \A i \in 1..4 : ~SomeSupported(AllCollections[i]))

\* C2 (amended): composite_score lies in [0, 100]; it is 0 exactly when no
\* supported result of C1, C2 or C3 passed, which includes the case that none
\* of C1-C3 is supported.
C2_RangeAndZero ==
    pc = "done" =>
        /\ VGe(summary.composite_score, Zero)
        /\ VLe(summary.composite_score, Fin(100, 1))
        /\ (summary.composite_score = Zero <=>
                \A i \in 1..3 : Count(CoreCollections[i], PassedSupported) = 0)
        /\ ((\A i \in 1..3 : ~SomeSupported(CoreCollections[i]))
                => summary.composite_score = Zero)

C2_Witness ==
    /\ pc = "done"
    /\ summary.composite_score = Zero
    /\ SomeSupported(results_monotonic) /\ SomeSupported(results_c4)
    /\ ~SomeSupported(results_compress) /\ results_compress # <<>>

\* C4: each per-check summary has supported = some result is supported,
\* passed = at least one supported result and all supported results passed,
\* pass_ratio = fraction of supported results that passed (0 if none).
SummaryMatches(s, results) ==
    /\ s.supported = SomeSupported(results)
    /\ s.passed = (SomeSupported(results) /\
                   Count(results, PassedSupported) = Count(results, IsSupported))
    /\ s.pass_ratio = FractionPassed(results)

C4_PerCheckSummary ==
    pc = "done" =>
        /\ SummaryMatches(summary.checks.C1, results_monotonic)
        /\ SummaryMatches(summary.checks.C2, results_compress)
        /\ SummaryMatches(summary.checks.C3, results_clapeyron)
        /\ SummaryMatches(summary.checks.C4, results_c4)

UnsupportedButPassed(r) == ~r.supported /\ r.passed

C4_Witness ==
    /\ pc = "done"
    /\ Count(results_monotonic, UnsupportedButPassed) > 0
    /\ summary.checks.C1.pass_ratio = Fin(1, 2)
    /\ ~summary.checks.C1.passed /\ summary.checks.C1.supported
    /\ results_c4 = <<>> /\ ~summary.checks.C4.supported

\* C9: the C1 and C2 summaries have severity info when passed without any
\* near-boundary flag, warn when passed with a flag, and fail otherwise.
SeverityMatches(s, results) ==
    LET flagged == Count(results, IsNearSpinodal) > 0
    IN  /\ (s.passed /\ ~flagged) => s.severity = "info"
        /\ (s.passed /\ flagged) => s.severity = "warn"
        /\ ~s.passed => s.severity = "fail"

C9_SeverityC1C2 ==
    pc = "done" =>
        /\ SeverityMatches(summary.checks.C1, results_monotonic)
        /\ SeverityMatches(summary.checks.C2, results_compress)

C9_Witness ==
    /\ pc = "done"
    /\ summary.checks.C1.severity = "warn"
    /\ summary.checks.C2.severity = "fail"
    /\ Count(results_compress, IsNearSpinodal) > 0

\* C10: the C4 summary has severity info when C4 is unsupported or passed,
\* warn when it is supported but did not pass, and never fail.
C10_SeverityC4 ==
    pc = "done" =>
        LET s == summary.checks.C4
        IN  /\ (~s.supported \/ s.passed) => s.severity = "info"
            /\ (s.supported /\ ~s.passed) => s.severity = "warn"
            /\ s.severity # "fail"

C10_Witness ==
    /\ pc = "done"
    /\ summary.checks.C4.supported /\ ~summary.checks.C4.passed
    /\ summary.checks.C4.severity = "warn"

(***************************************************************************)
(* Claims about the check functions                                        *)
(***************************************************************************)
SummariesOf(sm) == {sm.checks.C1, sm.checks.C2, sm.checks.C3, sm.checks.C4}

\* C3: a result returned by a check, and a per-check summary, with
\* supported = false has passed = false.
C3_UnsupportedNotPassed ==
    /\ (last.outcome = "returned" /\ ~last.result.supported)
            => ~last.result.passed
    /\ pc = "done" => \A c \in SummariesOf(summary) : ~c.supported => ~c.passed

\* C3 degraded by an adapter exception after a temperature within tolerance
C3_Witness ==
    /\ pc = "done"
    /\ last.check = "C3" /\ ~last.result.supported /\ ~last.result.passed
    /\ Len(last.result.rel_errors) = 2
    /\ last.result.rel_errors[1] = Zero
    /\ ~summary.checks.C3.supported /\ ~summary.checks.C3.passed

\* C5: no check calls an adapter operation whose capability flag is false.
CallAllowed(c) ==
    CASE c.op = "rho" -> caps.supports_rho
      [] c.op = "phase_split_at_T" ->
            caps.supports_phase_split /\ caps.supports_h /\ caps.supports_rho
      [] c.op = "speed_of_sound" -> caps.supports_speed_of_sound
      [] OTHER -> FALSE

C5_NoUnsupportedCall ==
    \A i \in 1..Len(last.calls) : CallAllowed(last.calls[i])

\* C3 on temperatures inside the saturation range, with an adapter that has
\* the phase split but no enthalpy: nothing was called
C5_Witness ==
    /\ last.check = "C3" /\ last.outcome = "returned"
    /\ caps.supports_phase_split /\ caps.supports_rho /\ ~caps.supports_h
    /\ Len(last.result.T_list) = 2
    /\ last.calls = <<>>

\* C6: an exception of the adapter during a property call never leaves the
\* check: the check returns a result record.
C6_AdapterErrorContained ==
    ~(last.outcome = "raised" /\ last.cause = "adapter")

\* x > -tol, by cross-multiplication
Exceeds(x, tol) ==
    \/ x.k = "pinf"
    \/ x.k = "fin" /\ x.n * tol.d + tol.n * x.d > 0

NumExceeding(dr, tol) == Cardinality({i \in 1..Len(dr) : Exceeds(dr[i], tol)})

\* C7: for a supported adapter and at least two pressures, C1 has
\* passed = every midpoint derivative > -tol, and fraction_positive = the
\* fraction of midpoints whose derivative > -tol.
C7_MonotonicVerdict ==
    (last.check = "C1" /\ last.outcome = "returned" /\ caps.supports_rho
        /\ Len(last.result.p) >= 2) =>
        LET r == last.result
            n == Len(r.drho_dp)
        IN  /\ n = Len(r.p) - 1
            /\ r.passed = (NumExceeding(r.drho_dp, r.tol) = n)
            /\ r.fraction_positive.n * n
                    = NumExceeding(r.drho_dp, r.tol) * r.fraction_positive.d
            /\ r.passed = (r.fraction_positive = One)

\* one derivative exactly -tol, one inside the slack
C7_Witness ==
    /\ last.check = "C1" /\ last.outcome = "returned" /\ caps.supports_rho
    /\ Len(last.result.p) = 3
    /\ last.result.tol = Fin(10, 1)
    /\ last.result.drho_dp = <<Fin(-10, 1), Fin(-5, 1)>>
    /\ last.result.fraction_positive = Fin(1, 2)
    /\ ~last.result.passed

\* the k-th smallest element of a list of finite values
Below(s, x) == Cardinality({i \in 1..Len(s) : s[i].n * x.d < x.n * s[i].d})
NotAbove(s, x) == Cardinality({i \in 1..Len(s) : s[i].n * x.d <= x.n * s[i].d})
KthSmallest(s, k) ==
    CHOOSE x \in {s[i] : i \in 1..Len(s)} : Below(s, x) < k /\ k <= NotAbove(s, x)

\* twice the median of a non-empty list of finite values
TwiceMedian(s) ==
    LET n == Len(s)
        lo == KthSmallest(s, (n + 1) \div 2)
        hi == KthSmallest(s, n \div 2 + 1)
    IN  Fin(lo.n * hi.d + hi.n * lo.d, lo.d * hi.d)

\* median of the finite relative errors < tol_rel; false when there is none
MedianWithin(r) ==
    LET fin == SelectSeq(r.rel_errors, IsFinite)
        m2 == TwiceMedian(fin)
    IN  /\ fin # <<>>
        /\ m2.n * r.tol_rel.d < 2 * r.tol_rel.n * m2.d

\* |lhs - rhs| / |lhs| when rhs is finite and lhs is nonzero, else infinity
RelErrorMatches(rel, lhs, rhs) ==
    IF rhs.k = "fin" /\ lhs.n # 0
    THEN /\ rel.k = "fin"
         /\ rel.n * lhs.d * rhs.d * Abs(lhs.n)
                = Abs(lhs.n * rhs.d - rhs.n * lhs.d) * rel.d * lhs.d
    ELSE rel.k = "pinf"

RelErrorsMatch(r) ==
    /\ Len(r.rel_errors) = Len(r.T_list)
    /\ \A i \in 1..Len(r.rel_errors) :
          RelErrorMatches(r.rel_errors[i], r.lhs_values[i], r.rhs_values[i])

\* C8 (as claimed): C3 passes iff the median of the finite relative errors is
\* strictly below tol_rel (not passing when no error is finite).
C8_PassIffMedianWithin ==
    (last.check = "C3" /\ last.outcome = "returned") =>
        /\ RelErrorsMatch(last.result)
        /\ last.result.passed = MedianWithin(last.result)

\* C8 (amended): C3 passes iff it is still supported when the loop ends (the
\* capabilities are present and no adapter call raised) and the median of the
\* finite relative errors is strictly below tol_rel; it does not pass when no
\* error is finite.
C8_PassIffSupportedAndMedianWithin ==
    (last.check = "C3" /\ last.outcome = "returned") =>
        /\ RelErrorsMatch(last.result)
        /\ last.result.passed
                = (last.result.supported /\ MedianWithin(last.result))

\* supported, one infinite error left out, the median exactly tol_rel: not passed
C8_Witness ==
    /\ last.check = "C3" /\ last.outcome = "returned"
    /\ last.result.supported /\ ~last.result.passed
    /\ last.result.rel_errors = <<Fin(1, 3), PInf>>
    /\ last.result.tol_rel = Fin(1, 3)

(***************************************************************************)
(* Badges                                                                  *)
(***************************************************************************)
\* C11: the badge Core is the mean pass_ratio over the supported checks among
\* C1, C2, C3 (0 when none is supported), and the badge Plus is C4's
\* pass_ratio when C4 is supported and 0 otherwise.
C11_Badges ==
    pc = "done" =>
        /\ VMul(Fin(100, 1), summary.badges.Core) = ScoreOver(CoreCollections)
        /\ summary.badges.Plus = IF SomeSupported(results_c4)
                                 THEN FractionPassed(results_c4) ELSE Zero

C11_Witness ==
    /\ pc = "done"
    /\ SomeSupported(results_monotonic) /\ SomeSupported(results_compress)
    /\ results_clapeyron # <<>> /\ ~SomeSupported(results_clapeyron)
    /\ SomeSupported(results_c4)
    /\ summary.badges.Core = Fin(1, 2)
    /\ summary.badges.Plus = One

(***************************************************************************)
(* The summary as a function of its inputs                                 *)
(***************************************************************************)
\* C12: two calls of aggregate_checks_to_summary with the same collections
\* and the same other arguments produce identical summaries.
C12_SameSummaryTwice ==
    pc = "again" => summary = previous

\* C13: the summary of a run echoes every tolerance the run's checks used:
\* the C1/C2 tolerance, the C3 relative tolerance and the C4 relative
\* tolerance.
Echoed(t) ==
    \E key \in DOMAIN summary.tolerances : summary.tolerances[key] = t

C13_TolerancesEchoed ==
    (pc = "done" /\ last.outcome = "returned") =>
        CASE last.check \in {"C1", "C2"} -> Echoed(last.result.tol)
          [] last.check \in {"C3", "C4"} -> Echoed(last.result.tol_rel)

(***************************************************************************)
(* Errors of the grid and of the baseline                                  *)
(***************************************************************************)
\* an empty pressure sequence, or a step p[k+1] - p[k] that is not positive
InvalidGrid(p) ==
    \/ p = <<>>
    \/ \E k \in 1..(Len(p) - 1) : p[k + 1] <= p[k]

\* C14: C1 and C2 surface an invalid grid (empty, or with a non-positive
\* step) as an error: they never return a result record for it.
C14_InvalidGridIsError ==
    ~(/\ last.check \in {"C1", "C2"}
      /\ last.outcome = "returned"
      /\ InvalidGrid(last.result.p))

\* C15: a failure of the baseline during C3 or C4 (range lookup, slope of the
\* saturation pressure, baseline speed of sound) is raised to the caller of
\* the check: no result is returned after it.
C15_BaselineFailureRaised ==
    (last.check \in {"C3", "C4"} /\ last.cause \in {"lookup", "baseline"})
        => last.outcome = "raised"

(***************************************************************************)
(* The bundled adapters                                                    *)
(***************************************************************************)
FourFlags == {"supports_rho", "supports_h", "supports_phase_split",
              "supports_speed_of_sound"}

\* C16: capabilities() of each bundled adapter returns, without raising, a
\* record with the four flags, of which supports_rho, supports_h and
\* supports_phase_split are true.
C16_BundledCapabilities ==
    last.check = "capabilities" =>
        /\ last.outcome = "returned"
        /\ DOMAIN last.result = FourFlags
        /\ last.result.supports_rho /\ last.result.supports_h
        /\ last.result.supports_phase_split

PairInBand(p) ==
    \E k \in 1..(Len(p) - 1) : p[k] \in ToyDipBand /\ p[k + 1] \in ToyDipBand
MeetsBand(p) == \E k \in 1..Len(p) : p[k] \in ToyDipBand

\* C17: on the toy adapter C1 and C2 return supported = true; passed = false
\* (and, for C1, fraction_positive < 1) when two consecutive grid pressures lie
\* in the band of the dip; passed = true when the grid does not meet the band.
C17_ToyDipDetected ==
    (last.check \in {"C1", "C2"} /\ last.adapter = "ToyInconsistentAdapter") =>
        /\ last.outcome = "returned"
        /\ last.result.supported
        /\ PairInBand(last.result.p) =>
                /\ ~last.result.passed
                /\ last.check = "C1" => VLt(last.result.fraction_positive, One)
        /\ ~MeetsBand(last.result.p) => last.result.passed

(***************************************************************************)
(* Exceptions of the adapter in C3 and C4                                  *)
(***************************************************************************)
\* the index of the call that raised, 0 when none did
RaisedAt(calls) ==
    IF \E j \in 1..Len(calls) : calls[j].raised
    THEN CHOOSE j \in 1..Len(calls) : calls[j].raised ELSE 0

\* the first n calls were made at the first n temperatures, in order
CalledInOrder(calls, T_list, n) ==
    /\ n <= Len(calls) /\ n <= Len(T_list)
    /\ \A k \in 1..n : calls[k].arg = T_list[k]

\* C18: when the adapter raises at a temperature during C3, that temperature
\* gets an infinite relative error, the adapter is not asked at any later
\* temperature, every later temperature gets an infinite relative error too,
\* and the result is unsupported and not passed, whatever the earlier
\* temperatures gave.
C18_AdapterFailureDegradesC3 ==
    (last.check = "C3" /\ last.outcome = "returned" /\ RaisedAt(last.calls) > 0) =>
        LET j == RaisedAt(last.calls)
            r == last.result
        IN  /\ CalledInOrder(last.calls, r.T_list, j)
            /\ Len(last.calls) = j
            /\ \A i \in j..Len(r.T_list) : r.rel_errors[i] = PInf
            /\ ~r.supported /\ ~r.passed

\* the first temperature within tolerance, the adapter raising at the second
C18_Witness ==
    /\ last.check = "C3" /\ last.outcome = "returned"
    /\ Len(last.result.T_list) = MaxTemps
    /\ RaisedAt(last.calls) = 2
    /\ last.result.rel_errors[1] = Zero
    /\ last.result.rel_errors[2] = PInf
    /\ ~last.result.supported /\ ~last.result.passed

\* C19: when the adapter raises at a temperature during C4, that temperature
\* gets an infinite relative error, the check goes on attempting the adapter
\* at the remaining temperatures, and the result is unsupported and not
\* passed.
C19_C4KeepsAttempting ==
    (last.check = "C4" /\ last.outcome = "returned" /\ RaisedAt(last.calls) > 0) =>
        LET j == RaisedAt(last.calls)
            r == last.result
        IN  /\ r.rel_errors[j] = PInf
            /\ Len(last.calls) = Len(r.T_list)
            /\ CalledInOrder(last.calls, r.T_list, Len(r.T_list))
            /\ ~r.supported /\ ~r.passed

(***************************************************************************)
(* The saturation range in C3                                              *)
(***************************************************************************)
\* below the triple-point temperature, or at or above the critical one
OutsideRange(T) == T < T_triple \/ T >= T_crit
InsideRange(T) == ~OutsideRange(T)

\* C20: C3 drops from the requested list exactly the temperatures below the
\* triple-point temperature or at or above the critical temperature and keeps
\* the others in their order; when none remains it returns an unsupported,
\* not-passed result with empty diagnostics and makes no adapter call.
C20_RangeFilter ==
    (last.check = "C3" /\ last.outcome = "returned") =>
        LET r == last.result
        IN  /\ r.T_list = SelectSeq(last.requested, InsideRange)
            /\ r.T_list = <<>> =>
                    /\ ~r.supported /\ ~r.passed
                    /\ r.rel_errors = <<>> /\ r.lhs_values = <<>>
                    /\ r.rhs_values = <<>>
                    /\ last.calls = <<>>

(***************************************************************************)
(* C4 on an adapter without sound-speed support                            *)
(***************************************************************************)
\* C21: when the adapter does not declare supports_speed_of_sound, the C4
\* result holds one baseline squared sound speed per requested temperature,
\* every a2_sur entry is NaN, every relative error is infinite, the result
\* is unsupported and not passed, and the adapter was never called.
C21_UnsupportedC4KeepsBaseline ==
    (/\ last.check = "C4" /\ last.outcome = "returned"
     /\ ~caps.supports_speed_of_sound) =>
        LET r == last.result
            n == Len(r.T_list)
        IN  /\ Len(r.a2_ref) = n /\ Len(r.a2_sur) = n /\ Len(r.rel_errors) = n
            /\ \A i \in 1..n :
                    /\ IsFinite(r.a2_ref[i])
                    /\ IsNaN(r.a2_sur[i])
                    /\ r.rel_errors[i] = PInf
            /\ ~r.supported /\ ~r.passed
            /\ last.calls = <<>>

\* the longest temperature list, a nonzero baseline at its first entry
C21_Witness ==
    /\ last.check = "C4" /\ last.outcome = "returned"
    /\ ~caps.supports_speed_of_sound
    /\ Len(last.result.T_list) = MaxTemps
    /\ Len(last.result.a2_ref) = MaxTemps
    /\ last.result.a2_ref[1] = Fin(4, 1)
    /\ IsNaN(last.result.a2_sur[MaxTemps])
    /\ last.calls = <<>>

(***************************************************************************)
(* The near-spinodal flag of C1 and C2                                     *)
(***************************************************************************)
\* the midpoint diagnostic series of a C1 or C2 result
Diagnostics(r) == IF r.name = "C1_monotonic" THEN r.drho_dp ELSE r.kappa_T

\* 0 <= x < max(10 * tol, 1e-9), the maximum unfolded into its two cases
InHalfOpenBand(x, tol) ==
    /\ VGe(x, Zero)
    /\ VLt(x, VMul(Fin(10, 1), tol)) \/ VLt(x, Fin(SpinodalFloor, 1))

\* C22: a C1 or C2 result has near_spinodal = true iff at least one of its
\* midpoint values (derivative for C1, kappa for C2) is at least 0 and
\* strictly below max(10 * tol, 1e-9), whether or not the result passed.
C22_NearSpinodalBand ==
    (last.check \in {"C1", "C2"} /\ last.outcome = "returned") =>
        LET r == last.result
            d == Diagnostics(r)
        IN  r.near_spinodal <=>
                \E i \in 1..Len(d) : InHalfOpenBand(d[i], r.tol)

\* a C2 result that did not pass and still has the flag: tol = 0 and a kappa
\* of exactly 0, which is in the band but not above -tol
C22_Witness ==
    /\ last.check = "C2" /\ last.outcome = "returned"
    /\ last.result.supported /\ ~last.result.passed
    /\ last.result.near_spinodal
    /\ last.result.tol = Zero
    /\ \E i \in 1..Len(last.result.kappa_T) : last.result.kappa_T[i] = Zero

(***************************************************************************)
(* C1 on a single pressure                                                 *)
(***************************************************************************)
\* C23: for an adapter that supports rho and a pressure sequence of length 1,
\* C1 evaluates no density and returns a result with no midpoint,
\* fraction_positive = 0, near_spinodal = false and passed = true; a C1 run
\* ends in an exception only after a density evaluation.
C23_SinglePressure ==
    /\ (/\ last.check = "C1" /\ last.outcome = "returned"
        /\ caps.supports_rho /\ Len(last.result.p) = 1) =>
            LET r == last.result
            IN  /\ last.calls = <<>>
                /\ r.drho_dp = <<>>
                /\ r.fraction_positive = Zero
                /\ ~r.near_spinodal
                /\ r.supported /\ r.passed
    /\ (/\ last.check = "C1" /\ last.outcome = "raised"
        /\ last.adapter = "any") => last.calls # <<>>

C23_Witness ==
    /\ last.check = "C1" /\ last.outcome = "returned"
    /\ caps.supports_rho
    /\ Len(last.result.p) = 1
    /\ last.result.drho_dp = <<>>
    /\ last.result.passed
    /\ last.calls = <<>>

(***************************************************************************)
(* The compressibility of C2                                               *)
(***************************************************************************)
Sign(x) ==
    CASE x.k = "pinf" -> 1
      [] x.k = "ninf" -> -1
      [] x.k = "fin" -> IF x.n > 0 THEN 1 ELSE IF x.n < 0 THEN -1 ELSE 0
      [] OTHER -> 2

\* the divisor the claim states: the density when it is above 1e-30 (every
\* positive density of RhoVals is), and 1e-30 for a zero or negative density
StatedDivisor(rho_mid) == IF rho_mid > 0 THEN Fin(rho_mid, 1) ELSE RhoFloor

\* C24: in a supported C2 result every kappa is the midpoint derivative
\* divided by max(rho(T, pmid), 1e-30); a finite derivative gives a finite
\* kappa of the same sign, also when the adapter's density at the midpoint
\* is zero or negative; and passed = true iff every kappa is greater than
\* -tol.
C24_KappaFloored ==
    (last.check = "C2" /\ last.outcome = "returned" /\ last.result.supported) =>
        LET r == last.result
            n == Len(r.kappa_T)
        IN  /\ Len(last.observed) = n
            /\ \A i \in 1..n :
                    LET m == last.observed[i]
                        kappa == r.kappa_T[i]
                    IN  /\ kappa = VDivNp(m.derivative, StatedDivisor(m.rho_mid))
                        /\ IsFinite(m.derivative) => IsFinite(kappa)
                        /\ Sign(kappa) = Sign(m.derivative)
            /\ r.passed <=> (NumExceeding(r.kappa_T, r.tol) = n)

\* one midpoint with zero density under a falling density, one with negative
\* density under a rising one
C24_Witness ==
    /\ last.check = "C2" /\ last.outcome = "returned" /\ last.result.supported
    /\ Len(last.result.kappa_T) = 2
    /\ last.observed[1].rho_mid = 0
    /\ Sign(last.observed[1].derivative) = -1
    /\ IsFinite(last.result.kappa_T[1]) /\ Sign(last.result.kappa_T[1]) = -1
    /\ last.observed[2].rho_mid < 0
    /\ Sign(last.observed[2].derivative) = 1
    /\ IsFinite(last.result.kappa_T[2]) /\ Sign(last.result.kappa_T[2]) = 1
    /\ ~last.result.passed

=============================================================================
